---------------------------- MODULE Spec2Model ----------------------------
(***************************************************************************)
(* A model of wc::wordCounter (src/word_counter.cpp): compute() wires one  *)
(* promise/future pair per ordered pair of workers, partitions the files   *)
(* round-robin, and runs one sweep thread per worker.  A sweep thread      *)
(* counts its files (process_file, retrieve_n_gram), groups its n-grams by *)
(* std::hash modulo num_threads, publishes one sub-map per peer, reads one *)
(* sub-map from every peer and adds its word counts to the shared freq map *)
(* under wc_mtx.                                                           *)
(*                                                                         *)
(* Text is a sequence of one-character strings.  A map<string, uint64_t>   *)
(* is a function from its keys to their counts.                            *)
(***************************************************************************)
EXTENDS Integers, Sequences, FiniteSets, TLC

\* ------------------------------------------------------------------ bounds
\* Largest n-gram size and largest worker count tried (0 is tried as well).
MaxN == 2
MaxWorkers == 2
\* Most files found under the root directory, and most bytes in all of them.
MaxFiles == 2
MaxChars == 3
\* std::hash<std::string> is unspecified: one of HashSeeds functions is drawn.
MaxSeed == 1
\* Most bytes in the file of the one-worker runs (SeqSpec).
MaxSeqChars == 5
\* Largest print limit ("header") a configuration is tried with.
MaxHeader == 2

\* --------------------------------------------------------------- characters
Lower == {"a", "b"}
Upper == {"B"}
Digit == {"7"}
Punct == {"."}

\* The bytes a file may hold.
Alphabet == {"a", "B", " ", "."}

\* The reserved byte that stands for digits and punctuation after
\* normalisation (declared in word_counter.hpp).
default_punct == "#"

\* std::tolower in the "C" locale.
ToLower(c) == IF c = "B" THEN "b" ELSE c

\* A byte map that turns punctuation into a blank: the sentence boundary is
\* lost.
NormalizePunctAsBlank(c) ==
  IF c = "\n" \/ c = "\t" \/ c \in Punct THEN " "
  ELSE IF c \in Digit THEN default_punct
  ELSE ToLower(c)

\* The byte map of process_file's std::transform.
Normalize(c) ==
  IF c = "\n" \/ c = "\t" THEN " "
  ELSE IF c \in Digit \/ c \in Punct THEN default_punct
  ELSE ToLower(c)

NormalizeAll(s) == [k \in 1..Len(s) |-> Normalize(s[k])]

\* \w of std::regex (ECMAScript): [A-Za-z0-9_].
IsWord(c) == c \in Lower \cup Upper \cup Digit \cup {"_"}

\* ------------------------------------------------------------------- maps
EmptyMap == <<>>

Incr(m, k) == IF k \in DOMAIN m THEN [m EXCEPT ![k] = @ + 1] ELSE m @@ (k :> 1)

Get(m, k) == IF k \in DOMAIN m THEN m[k] ELSE 0

\* ------------------------------------------------------- regex token split
\* First index >= i of s holding a byte that is not a word byte, or Len(s)+1.
RECURSIVE NextNonWord(_, _)
NextNonWord(s, i) ==
  IF i > Len(s) \/ ~IsWord(s[i]) THEN i ELSE NextNonWord(s, i + 1)

\* First index >= i of s holding a word byte, or Len(s)+1.
RECURSIVE NextWord(_, _)
NextWord(s, i) ==
  IF i > Len(s) \/ IsWord(s[i]) THEN i ELSE NextWord(s, i + 1)

\* The tokens after a match of \W+ that starts at i: an empty suffix after
\* the last match is not a token.
RECURSIVE TokensAfterMatch(_, _)
TokensAfterMatch(s, i) ==
  LET a == NextWord(s, i)
      b == NextNonWord(s, a)
  IN IF a > Len(s) THEN <<>>
     ELSE <<SubSeq(s, a, b - 1)>> \o
          (IF b > Len(s) THEN <<>> ELSE TokensAfterMatch(s, b))

\* std::sregex_token_iterator(s.begin(), s.end(), regex("\\W+"), -1): the
\* pieces of s between the matches.  Without a match the whole of s is the
\* one piece (also when s is empty); the piece before the first match is
\* kept when it is empty.
RegexSplit(s) ==
  LET f == NextNonWord(s, 1)
  IN IF f > Len(s) THEN <<s>>
     ELSE <<SubSeq(s, 1, f - 1)>> \o TokensAfterMatch(s, f)

\* A sentence loop without the test: an empty first piece stays a token.
SkipEmptyFirstNever(toks) == toks

\* "if (*iter == "") iter++;"
SkipEmptyFirst(toks) == IF toks[1] = <<>> THEN Tail(toks) ELSE toks

\* ------------------------------------------------------------ configuration
VARIABLES
  n,                  \* wordCounter::n
  num_threads,        \* wordCounter::num_threads
  hash_seed,          \* which function std::hash<std::string> is
  freq,               \* wordCounter::freq, the shared word table
  main_pc,            \* where compute() is
  aborted,            \* the process was killed
  slots,              \* the shared state of promises[p][q], per <<p, q>>
  futures,            \* futures[i][j]: the shared state it refers to
  all_files,          \* the texts of the files found, in discovery order
  files_to_sweep,     \* per worker, the indices of its files
  spawned,            \* threads constructed so far
  joined,             \* threads joined so far
  wc_mtx,             \* the worker holding wc_mtx, or NoOwner
  out,                \* std::cout: the worker that wrote each line
  failed,             \* the files whose read failed
  pc,                 \* per worker, where its sweep is
  idx,                \* per worker, the index of the loop it is in
  local_freq,
  local_n_gram_freq,
  local_n_grams,
  group_by_thread,
  my_fmaps,
  swept,              \* per worker, the files process_file was called on
  freq_writers,       \* the workers that have written to freq
  shown,              \* the entries display() printed, in order
  displayed           \* display() has been called

vars == <<n, num_threads, hash_seed, freq, main_pc, aborted, slots, futures,
          all_files, files_to_sweep, spawned, joined, wc_mtx, out, failed,
          pc, idx, local_freq, local_n_gram_freq, local_n_grams,
          group_by_thread, my_fmaps, swept, freq_writers, shown, displayed>>

cfgVars == <<n, num_threads, hash_seed>>
mainVars == <<main_pc, slots, futures, all_files, files_to_sweep, spawned, joined>>
sweepVars == <<pc, idx, local_freq, local_n_gram_freq, local_n_grams,
               group_by_thread, my_fmaps>>

Workers == 0..(num_threads - 1)

NoOwner == -1

\* ------------------------------------------------------------------- hash
CharCode(c) == CASE c = "a" -> 1 [] c = "b" -> 2 [] c = " " -> 3 [] OTHER -> 5

RECURSIVE WeightedSum(_, _)
WeightedSum(s, k) ==
  IF k > Len(s) THEN 0 ELSE k * CharCode(s[k]) + WeightedSum(s, k + 1)

\* std::hash<std::string>{}(n_gram): a pure function of the key, the same in
\* every thread.  Seed 0 sends every key to worker 0.
Hash(g) == hash_seed * WeightedSum(g, 1)

\* ------------------------------------------------------- retrieve_n_gram
\* The first k tokens joined by single spaces ("if (i != n - 1) << ' '").
RECURSIVE JoinTokens(_, _)
JoinTokens(toks, k) ==
  IF k = 0 THEN <<>>
  ELSE IF k = 1 THEN toks[1]
  ELSE toks[1] \o <<" ">> \o JoinTokens(Tail(toks), k - 1)

\* The counting state a sweep thread threads through process_file.
NewCount == [local_freq |-> EmptyMap, local_n_gram_freq |-> EmptyMap,
             local_n_grams |-> <<>>, lines |-> 0]

\* retrieve_n_gram with "distance > n" for "distance >= n": the last window
\* of every sentence is lost.
RECURSIVE retrieve_n_gram_strict(_, _)
retrieve_n_gram_strict(toks, st) ==
  IF Len(toks) > n
  THEN LET my_n_gram == JoinTokens(toks, n)
           st1 == [st EXCEPT
                     !.local_n_grams =
                        IF my_n_gram \in DOMAIN st.local_n_gram_freq
                        THEN @ ELSE Append(@, my_n_gram),
                     !.local_n_gram_freq = Incr(@, my_n_gram),
                     !.lines = @ + 1]
       IN retrieve_n_gram_strict(Tail(toks), st1)
  ELSE st

\* retrieve_n_gram(iter, end, ...) for n >= 1, toks being [iter, end).
RECURSIVE retrieve_n_gram(_, _)
retrieve_n_gram(toks, st) ==
  IF Len(toks) >= n
  THEN LET my_n_gram == JoinTokens(toks, n)
           st1 == [st EXCEPT
                     !.local_n_grams =
                        IF my_n_gram \in DOMAIN st.local_n_gram_freq
                        THEN @ ELSE Append(@, my_n_gram),
                     !.local_n_gram_freq = Incr(@, my_n_gram),
                     !.lines = @ + 1]
       IN retrieve_n_gram(Tail(toks), st1)
  ELSE st

\* --------------------------------------------------------- process_file
\* Index of the first default_punct of s at or after i, or Len(s)+1.
RECURSIVE SentenceEnd(_, _)
SentenceEnd(s, i) ==
  IF i > Len(s) \/ s[i] = default_punct THEN i ELSE SentenceEnd(s, i + 1)

\* "my_string = i == size ? substr(i) : substr(i + 1)"
DiscardSentence(my_string, i) ==
  IF i > Len(my_string) THEN <<>> ELSE SubSeq(my_string, i + 1, Len(my_string))

\* The while loop over my_string.
RECURSIVE SentenceLoop(_, _)
SentenceLoop(my_string, st) ==
  IF Len(my_string) = 0 THEN st
  ELSE LET i == SentenceEnd(my_string, 1)
           my_sentence == SubSeq(my_string, 1, i - 1)
           toks == SkipEmptyFirst(RegexSplit(my_sentence))
       IN SentenceLoop(DiscardSentence(my_string, i),
                       retrieve_n_gram(toks, st))

\* The word loop over the whole contents: every non-empty piece is counted.
RECURSIVE CountWords(_, _)
CountWords(toks, m) ==
  IF toks = <<>> THEN m
  ELSE CountWords(Tail(toks),
                  IF toks[1] # <<>> THEN Incr(m, toks[1]) ELSE m)

\* A read that hands on the bytes of a file it could not open.
ReadFileIgnoringFailure(text, ok) == text

\* "std::ifstream fin(file); buffer << fin.rdbuf();": a file that cannot be
\* opened yields no bytes.
ReadFile(text, ok) == IF ok THEN text ELSE <<>>

process_file(bytes, st) ==
  LET contents == NormalizeAll(bytes)
      st1 == SentenceLoop(contents, st)
  IN [st1 EXCEPT !.local_freq = CountWords(RegexSplit(contents), @)]

\* ---------------------------------------------------------------- inputs
\* The texts of at most k bytes.
Texts(k) == UNION {[1..m -> Alphabet] : m \in 0..k}

\* The lists of at most k files holding at most budget bytes together.
RECURSIVE FileLists(_, _)
FileLists(k, budget) ==
  IF k = 0 THEN {<<>>}
  ELSE {<<>>} \cup
       UNION {{<<t>> \o rest : rest \in FileLists(k - 1, budget - Len(t))} :
              t \in Texts(budget)}

\* ------------------------------------------------------------------ state
Init ==
  /\ n \in 0..MaxN
  /\ num_threads \in 0..MaxWorkers
  /\ hash_seed \in 0..MaxSeed
  /\ freq = EmptyMap
  /\ main_pc = "wire"
  /\ aborted = FALSE
  /\ slots = <<>>
  /\ futures = <<>>
  /\ all_files = <<>>
  /\ files_to_sweep = [w \in Workers |-> <<>>]
  /\ spawned = 0
  /\ joined = 0
  /\ wc_mtx = NoOwner
  /\ out = <<>>
  /\ failed = {}
  /\ pc = [w \in Workers |-> "idle"]
  /\ idx = [w \in Workers |-> 0]
  /\ local_freq = [w \in Workers |-> EmptyMap]
  /\ local_n_gram_freq = [w \in Workers |-> EmptyMap]
  /\ local_n_grams = [w \in Workers |-> <<>>]
  /\ group_by_thread = [w \in Workers |-> [t \in Workers |-> EmptyMap]]
  /\ my_fmaps = [w \in Workers |-> [t \in Workers |-> EmptyMap]]
  /\ swept = [w \in Workers |-> <<>>]
  /\ freq_writers = {}
  /\ shown = <<>>
  /\ displayed = FALSE

\* ---------------------------------------------------------- compute(): main
\* A promise nobody has set: who called set_value, who called get, the value.
NewSlot == [writers |-> <<>>, readers |-> <<>>, val |-> EmptyMap]

\* A sweep that sets its first promise on every pass.
PromiseOfFirst(w, i) == <<w, 0>>

\* The shared state behind my_promises[i] of worker w: promises[w][i].
PromiseOf(w, i) == <<w, i>>

\* The wiring with the indices the wrong way round: promises[i][j].
FutureSourceOwnRow(i, j) == <<i, j>>

\* "futures[i].push_back(promises[j][i].get_future())"
FutureSource(i, j) == <<j, i>>

\* The promise/future wiring.
Wire ==
  /\ ~aborted /\ main_pc = "wire"
  /\ slots' = [p \in Workers \X Workers |-> NewSlot]
  /\ futures' = [i \in Workers |-> [j \in Workers |-> FutureSource(i, j)]]
  /\ main_pc' = "find"
  /\ UNCHANGED <<swept, freq_writers, shown, displayed>>
  /\ UNCHANGED <<cfgVars, freq, aborted, all_files, files_to_sweep, spawned,
                 joined, wc_mtx, out, failed, sweepVars>>

\* utils::find_all_files: the .txt files under dir, as the directory holds them.
FindFiles ==
  /\ ~aborted /\ main_pc = "find"
  /\ \E fs \in FileLists(MaxFiles, MaxChars) : all_files' = fs
  /\ main_pc' = "partition"
  /\ UNCHANGED <<swept, freq_writers, shown, displayed>>
  /\ UNCHANGED <<cfgVars, freq, aborted, slots, futures, files_to_sweep,
                 spawned, joined, wc_mtx, out, failed, sweepVars>>

\* The assignment with "(i + 1) % num_threads": every file goes to the
\* worker after its own.
RECURSIVE PartitionLoopShifted(_, _)
PartitionLoopShifted(i, fts) ==
  IF i >= Len(all_files) THEN fts
  ELSE PartitionLoopShifted(i + 1,
         [fts EXCEPT ![(i + 1) % num_threads] = Append(@, i)])

\* "files_to_sweep[i % num_threads].push_back(all_files[i])", i from 0.
RECURSIVE PartitionLoop(_, _)
PartitionLoop(i, fts) ==
  IF i >= Len(all_files) THEN fts
  ELSE PartitionLoop(i + 1,
         [fts EXCEPT ![i % num_threads] = Append(@, i)])

\* With num_threads = 0 and a file to assign, i % num_threads is undefined:
\* the process is killed, or the assignment is lost and compute() goes on.
Partition ==
  /\ ~aborted /\ main_pc = "partition"
  /\ IF num_threads = 0
     THEN /\ \/ Len(all_files) > 0 /\ aborted' = TRUE /\ main_pc' = main_pc
             \/ aborted' = FALSE /\ main_pc' = "returned"
          /\ UNCHANGED files_to_sweep
     ELSE /\ files_to_sweep' = PartitionLoop(0, files_to_sweep)
          /\ main_pc' = "spawn"
          /\ UNCHANGED aborted
  /\ UNCHANGED <<swept, freq_writers, shown, displayed>>
  /\ UNCHANGED <<cfgVars, freq, slots, futures, all_files, spawned, joined,
                 wc_mtx, out, failed, sweepVars>>

\* "workers.push_back(std::thread(sweep, ...))" for i = spawned.
Spawn ==
  /\ ~aborted /\ main_pc = "spawn"
  /\ pc' = [pc EXCEPT ![spawned] = "count"]
  /\ idx' = [idx EXCEPT ![spawned] = 1]
  /\ spawned' = spawned + 1
  /\ main_pc' = IF spawned + 1 = num_threads THEN "join" ELSE "spawn"
  /\ UNCHANGED <<swept, freq_writers, shown, displayed>>
  /\ UNCHANGED <<cfgVars, freq, aborted, slots, futures, all_files,
                 files_to_sweep, joined, wc_mtx, out, failed, local_freq,
                 local_n_gram_freq, local_n_grams, group_by_thread, my_fmaps>>

\* "worker.join()" for the next worker: it returns once that sweep has.
Join ==
  /\ ~aborted /\ main_pc = "join"
  /\ pc[joined] = "done"
  /\ joined' = joined + 1
  /\ main_pc' = IF joined + 1 = num_threads THEN "returned" ELSE "join"
  /\ UNCHANGED <<swept, freq_writers, shown, displayed>>
  /\ UNCHANGED <<cfgVars, freq, aborted, slots, futures, all_files,
                 files_to_sweep, spawned, wc_mtx, out, failed, sweepVars>>

\* ------------------------------------------------------ the sweep thread
\* The counting state of worker w.
CountOf(w) == [local_freq |-> local_freq[w],
               local_n_gram_freq |-> local_n_gram_freq[w],
               local_n_grams |-> local_n_grams[w], lines |-> 0]

\* The lines one worker writes to std::cout, each under io_mutex.
LinesOf(w, k) == [j \in 1..k |-> w]

\* One pass of "for (fs::path file : my_files_to_sweep) process_file(...)".
\* With n = 0 and a sentence to process, retrieve_n_gram recurses without
\* end and steps its iterator past the end: the process is killed, or the
\* thread never returns.
ProcessFile(w) ==
  /\ ~aborted /\ pc[w] = "count" /\ idx[w] <= Len(files_to_sweep[w])
  /\ \E ok \in BOOLEAN :
       LET file == files_to_sweep[w][idx[w]]
           bytes == ReadFile(all_files[file + 1], ok)
           st == process_file(bytes, CountOf(w))
       IN IF n = 0 /\ bytes # <<>>
          THEN /\ \/ aborted' = TRUE /\ pc' = pc
                  \/ aborted' = FALSE /\ pc' = [pc EXCEPT ![w] = "hung"]
               /\ UNCHANGED <<idx, local_freq, local_n_gram_freq,
                              local_n_grams, out, failed, swept>>
          ELSE /\ local_freq' = [local_freq EXCEPT ![w] = st.local_freq]
               /\ local_n_gram_freq' =
                    [local_n_gram_freq EXCEPT ![w] = st.local_n_gram_freq]
               /\ local_n_grams' =
                    [local_n_grams EXCEPT ![w] = st.local_n_grams]
               /\ out' = out \o LinesOf(w, st.lines)
               /\ failed' = IF ok THEN failed ELSE failed \cup {file}
               /\ idx' = [idx EXCEPT ![w] = @ + 1]
               /\ swept' = [swept EXCEPT ![w] = Append(@, file)]
               /\ UNCHANGED <<aborted, pc>>
  /\ UNCHANGED <<freq_writers, shown, displayed>>
  /\ UNCHANGED <<cfgVars, freq, mainVars, wc_mtx, group_by_thread, my_fmaps>>

\* The grouping with "group_by_thread[t][n_gram]++" for the assignment: the
\* count is lost.
RECURSIVE GroupLoopCountLost(_, _, _)
GroupLoopCountLost(grams, counts, groups) ==
  IF grams = <<>> THEN groups
  ELSE LET n_gram == grams[1]
           t == Hash(n_gram) % num_threads
       IN GroupLoopCountLost(Tail(grams), counts,
            [groups EXCEPT ![t] = Incr(@, n_gram)])

\* "group_by_thread[hash(n_gram) % num_threads][n_gram] =
\*  local_n_gram_freq[n_gram]" for every n_gram of local_n_grams.
RECURSIVE GroupLoop(_, _, _)
GroupLoop(grams, counts, groups) ==
  IF grams = <<>> THEN groups
  ELSE LET n_gram == grams[1]
           t == Hash(n_gram) % num_threads
       IN GroupLoop(Tail(grams), counts,
            [groups EXCEPT ![t] =
               [k \in DOMAIN @ \cup {n_gram} |->
                  IF k = n_gram THEN Get(counts, n_gram) ELSE @[k]]])

\* The files are done: group the local n-grams by owner.
GroupBy(w) ==
  /\ ~aborted /\ pc[w] = "count" /\ idx[w] > Len(files_to_sweep[w])
  /\ group_by_thread' =
       [group_by_thread EXCEPT ![w] =
          GroupLoop(local_n_grams[w], local_n_gram_freq[w],
                    [t \in Workers |-> EmptyMap])]
  /\ pc' = [pc EXCEPT ![w] = "publish"]
  /\ idx' = [idx EXCEPT ![w] = 0]
  /\ UNCHANGED <<swept, freq_writers, shown, displayed>>
  /\ UNCHANGED <<cfgVars, freq, aborted, mainVars, wc_mtx, out, failed,
                 local_freq, local_n_gram_freq, local_n_grams, my_fmaps>>

\* The loops with "i != num_threads - 1": the last index is skipped.
PublishDoneEarly(i) == i + 1 >= num_threads - 1
ReadDoneEarly(i) == i + 1 >= num_threads - 1

\* A get() that does not wait for the promise.
ReadyAlways(src) == TRUE

\* "for (uint32_t i = 0; i != num_threads; i++)" around set_value: whether
\* the pass for index i was the last one.
PublishDone(i) == i + 1 = num_threads

\* The same test of the loop around get().
ReadDone(i) == i + 1 = num_threads

\* Whether get() on a future of shared state src returns: the promise has
\* been set.
Ready(src) == slots[src].writers # <<>>

\* "my_promises[i].set_value(group_by_thread[i])" for i = idx[w].
Publish(w) ==
  /\ ~aborted /\ pc[w] = "publish"
  /\ LET i == idx[w]
     IN /\ slots' = [slots EXCEPT ![PromiseOf(w, i)] =
                       [@ EXCEPT !.writers = Append(@, w),
                                 !.val = group_by_thread[w][i]]]
        /\ idx' = [idx EXCEPT ![w] = IF PublishDone(i) THEN 0 ELSE i + 1]
        /\ pc' = [pc EXCEPT ![w] =
                    IF PublishDone(i) THEN "read" ELSE "publish"]
  /\ UNCHANGED <<swept, freq_writers, shown, displayed>>
  /\ UNCHANGED <<cfgVars, freq, aborted, main_pc, futures, all_files,
                 files_to_sweep, spawned, joined, wc_mtx, out, failed,
                 local_freq, local_n_gram_freq, local_n_grams,
                 group_by_thread, my_fmaps>>

\* "my_fmaps[i] = my_futures[i].get()" for i = idx[w]: get() blocks until the
\* promise behind the future has been set.
Read(w) ==
  /\ ~aborted /\ pc[w] = "read"
  /\ LET i == idx[w]
         src == futures[w][i]
     IN /\ Ready(src)
        /\ my_fmaps' = [my_fmaps EXCEPT ![w][i] = slots[src].val]
        /\ slots' = [slots EXCEPT ![src].readers = Append(@, w)]
        /\ idx' = [idx EXCEPT ![w] = IF ReadDone(i) THEN 0 ELSE i + 1]
        /\ pc' = [pc EXCEPT ![w] = IF ReadDone(i) THEN "lock" ELSE "read"]
  /\ UNCHANGED <<swept, freq_writers, shown, displayed>>
  /\ UNCHANGED <<cfgVars, freq, aborted, main_pc, futures, all_files,
                 files_to_sweep, spawned, joined, wc_mtx, out, failed,
                 local_freq, local_n_gram_freq, local_n_grams,
                 group_by_thread>>

\* A mutex that is granted whoever holds it.
UnlockedAlways == TRUE

\* Whether the constructor of the lock_guard returns: no thread holds wc_mtx.
Unlocked == wc_mtx = NoOwner

\* "std::lock_guard<std::mutex> lock(wc_mtx);"
Lock(w) ==
  /\ ~aborted /\ pc[w] = "lock"
  /\ Unlocked
  /\ wc_mtx' = w
  /\ pc' = [pc EXCEPT ![w] = "merge"]
  /\ UNCHANGED <<swept, freq_writers, shown, displayed>>
  /\ UNCHANGED <<cfgVars, freq, aborted, mainVars, out, failed, idx,
                 local_freq, local_n_gram_freq, local_n_grams,
                 group_by_thread, my_fmaps>>

\* "freq[word] += cnt" for every entry of local_freq.
MergeInto(table, counts) ==
  [k \in DOMAIN table \cup DOMAIN counts |-> Get(table, k) + Get(counts, k)]

\* The update of this->freq; the lock_guard releases wc_mtx as sweep returns.
Merge(w) ==
  /\ ~aborted /\ pc[w] = "merge"
  /\ freq' = MergeInto(freq, local_freq[w])
  /\ freq_writers' = IF local_freq[w] = EmptyMap THEN freq_writers
                     ELSE freq_writers \cup {w}
  /\ wc_mtx' = NoOwner
  /\ pc' = [pc EXCEPT ![w] = "done"]
  /\ UNCHANGED <<swept, shown, displayed>>
  /\ UNCHANGED <<cfgVars, aborted, mainVars, out, failed, idx, local_freq,
                 local_n_gram_freq, local_n_grams, group_by_thread, my_fmaps>>

\* ---------------------------------------------------------------- display()
\* The value of a byte as operator< of std::string compares it.
Ascii(c) ==
  CASE c = "a" -> 97 [] c = "b" -> 98 [] c = "B" -> 66 [] c = " " -> 32
    [] c = "." -> 46 [] c = "7" -> 55 [] OTHER -> 35

\* "p1.first < p2.first" on std::string: the first differing byte decides, a
\* proper prefix comes first.
RECURSIVE StringLess(_, _)
StringLess(s, t) ==
  IF t = <<>> THEN FALSE
  ELSE IF s = <<>> THEN TRUE
  ELSE IF s[1] # t[1] THEN Ascii(s[1]) < Ascii(t[1])
  ELSE StringLess(Tail(s), Tail(t))

\* A comparator that breaks ties on the larger key.
Comparator_KeyDescending(p1, p2) ==
  p1[2] > p2[2] \/ (p1[2] = p2[2] /\ StringLess(p2[1], p1[1]))

\* The lambda handed to std::sort, on pairs <<first, second>>.
Comparator(p1, p2) ==
  p1[2] > p2[2] \/ (p1[2] = p2[2] /\ StringLess(p1[1], p2[1]))

\* freq_vec after the copy loop: the entries of the map in some order.
RECURSIVE FreqVec(_)
FreqVec(m) ==
  IF DOMAIN m = {} THEN <<>>
  ELSE LET word == CHOOSE k \in DOMAIN m : TRUE
       IN <<<<word, m[word]>>>> \o FreqVec([k \in DOMAIN m \ {word} |-> m[k]])

\* p put into the sorted vector v, in front of the first entry it precedes.
RECURSIVE InsertSorted(_, _)
InsertSorted(p, v) ==
  IF v = <<>> THEN <<p>>
  ELSE IF Comparator(p, v[1]) THEN <<p>> \o v
  ELSE <<v[1]>> \o InsertSorted(p, Tail(v))

\* std::sort(freq_vec.begin(), freq_vec.end(), comparator).
RECURSIVE SortVec(_)
SortVec(v) == IF v = <<>> THEN <<>> ELSE InsertSorted(v[1], SortVec(Tail(v)))

\* display(), called once after compute() has returned: one line "word: cnt" per
\* entry of the sorted vector, all of them.
Display ==
  /\ ~aborted /\ main_pc = "returned" /\ ~displayed
  /\ shown' = SortVec(FreqVec(freq))
  /\ displayed' = TRUE
  /\ UNCHANGED <<cfgVars, freq, aborted, mainVars, wc_mtx, out, failed,
                 sweepVars, swept, freq_writers>>

Sweep(w) ==
  \/ ProcessFile(w)
  \/ GroupBy(w)
  \/ Publish(w)
  \/ Read(w)
  \/ Lock(w)
  \/ Merge(w)

Main == Wire \/ FindFiles \/ Partition \/ Spawn \/ Join

Next ==
  \/ Wire
  \/ FindFiles
  \/ Partition
  \/ Spawn
  \/ Join
  \/ Display
  \/ \E w \in Workers : ProcessFile(w)
  \/ \E w \in Workers : GroupBy(w)
  \/ \E w \in Workers : Publish(w)
  \/ \E w \in Workers : Read(w)
  \/ \E w \in Workers : Lock(w)
  \/ \E w \in Workers : Merge(w)

Spec == Init /\ [][Next]_vars

\* Every thread that can take a step eventually takes one.
FairSpec ==
  /\ Spec
  /\ WF_vars(Main)
  /\ \A w \in 0..(MaxWorkers - 1) : WF_vars(w \in Workers /\ Sweep(w))

\* ------------------------------------------------- one worker, one file
\* The bytes the file of a one-worker run may hold: a digit and a newline
\* as well.
SeqAlphabet == Alphabet \cup {"7", "\n"}

SeqTexts == UNION {[1..m -> SeqAlphabet] : m \in 0..MaxSeqChars}

\* compute() with n >= 1 and one worker, wired and about to partition the
\* one file found; which hash function is drawn does not matter.
SeqInit ==
  /\ n \in 1..MaxN
  /\ num_threads = 1
  /\ hash_seed = 0
  /\ freq = EmptyMap
  /\ main_pc = "partition"
  /\ aborted = FALSE
  /\ slots = [p \in Workers \X Workers |-> NewSlot]
  /\ futures = [i \in Workers |-> [j \in Workers |-> FutureSource(i, j)]]
  /\ \E t \in SeqTexts : all_files = <<t>>
  /\ files_to_sweep = [w \in Workers |-> <<>>]
  /\ spawned = 0
  /\ joined = 0
  /\ wc_mtx = NoOwner
  /\ out = <<>>
  /\ failed = {}
  /\ pc = [w \in Workers |-> "idle"]
  /\ idx = [w \in Workers |-> 0]
  /\ local_freq = [w \in Workers |-> EmptyMap]
  /\ local_n_gram_freq = [w \in Workers |-> EmptyMap]
  /\ local_n_grams = [w \in Workers |-> <<>>]
  /\ group_by_thread = [w \in Workers |-> [t \in Workers |-> EmptyMap]]
  /\ my_fmaps = [w \in Workers |-> [t \in Workers |-> EmptyMap]]
  /\ swept = [w \in Workers |-> <<>>]
  /\ freq_writers = {}
  /\ shown = <<>>
  /\ displayed = FALSE

SeqNext ==
  \/ Partition
  \/ Spawn
  \/ Join
  \/ Display
  \/ \E w \in Workers : ProcessFile(w)
  \/ \E w \in Workers : GroupBy(w)
  \/ \E w \in Workers : Publish(w)
  \/ \E w \in Workers : Read(w)
  \/ \E w \in Workers : Lock(w)
  \/ \E w \in Workers : Merge(w)

SeqSpec == SeqInit /\ [][SeqNext]_vars

\* ======================================================= the properties
\* The configuration the design asks for.
Valid == n >= 1 /\ num_threads >= 1

AllDone == \A w \in Workers : pc[w] = "done"

\* Worker w has left the loop over its futures.
PastShuffle(w) == pc[w] \in {"lock", "merge", "done"}

\* owner(ngram) = hash(ngram) mod num_workers.
Owner(g) == Hash(g) % num_threads

Range(f) == {f[x] : x \in DOMAIN f}

RECURSIVE SumFn(_)
SumFn(f) ==
  IF DOMAIN f = {} THEN 0
  ELSE LET x == CHOOSE x \in DOMAIN f : TRUE
       IN f[x] + SumFn([y \in DOMAIN f \ {x} |-> f[y]])

\* ---- n-grams of a raw text, by position (sections 3 and 4.1 of the design)
IsLetter(c) == c \in Lower \cup Upper
IsBreak(c) == c \in Digit \cup Punct
Fold(c) == IF c \in Upper THEN (CASE c = "B" -> "b" [] OTHER -> c) ELSE c

\* The maximal runs of letters of t, as <<first, last>>.
Runs(t) ==
  {r \in (1..Len(t)) \X (1..Len(t)) :
     /\ r[1] <= r[2]
     /\ \A k \in r[1]..r[2] : IsLetter(t[k])
     /\ r[1] = 1 \/ ~IsLetter(t[r[1] - 1])
     /\ r[2] = Len(t) \/ ~IsLetter(t[r[2] + 1])}

\* The runs from left to right.
RunSeq(t) ==
  LET S == Runs(t)
  IN [k \in 1..Cardinality(S) |->
        CHOOSE r \in S : Cardinality({q \in S : q[1] < r[1]}) = k - 1]

TokenAt(t, r) == [k \in 1..(r[2] - r[1] + 1) |-> Fold(t[r[1] + k - 1])]

\* No digit or punctuation lies between run r and the later run q.
SameSentence(t, r, q) == \A k \in (r[2] + 1)..(q[1] - 1) : ~IsBreak(t[k])

\* The window of len tokens that starts at token k, spelled out.
RECURSIVE Spell(_, _, _, _)
Spell(t, rs, k, len) ==
  IF len = 1 THEN TokenAt(t, rs[k])
  ELSE TokenAt(t, rs[k]) \o <<" ">> \o Spell(t, rs, k + 1, len - 1)

\* The starts of the windows of n tokens that lie within one sentence.
WindowStarts(t) ==
  LET rs == RunSeq(t)
  IN {k \in 1..(Len(rs) - n + 1) :
        \A m \in k..(k + n - 2) : SameSentence(t, rs[m], rs[m + 1])}

\* How many windows of t spell g.
Windows(t, g) ==
  Cardinality({k \in WindowStarts(t) : Spell(t, RunSeq(t), k, n) = g})

WindowKeys(t) == {Spell(t, RunSeq(t), k, n) : k \in WindowStarts(t)}

\* The files that were read: file f is all_files[f + 1].
FilesRead == {f \in 0..(Len(all_files) - 1) : f \notin failed}

\* The windows spelling g in the files of the set F.
WindowsIn(F, g) == SumFn([f \in F |-> Windows(all_files[f + 1], g)])

\* What worker j holds after the shuffle: the sub-maps it received.
FinalKeys(j) == UNION {DOMAIN my_fmaps[j][i] : i \in Workers}
FinalCount(j, g) == SumFn([i \in Workers |-> Get(my_fmaps[j][i], g)])

AllKeys ==
  UNION {FinalKeys(j) : j \in Workers}
  \cup UNION {WindowKeys(all_files[f + 1]) : f \in FilesRead}

OwnedBy(m, j) == [g \in {k \in DOMAIN m : Owner(k) = j} |-> m[g]]

\* C3 (shuffle contract): once worker j has read all its inbound slots, the
\* sub-map it holds from each peer i is exactly the part of i's local
\* n-gram map that j owns, counts unchanged.
C3_ShuffleContract ==
  Valid =>
    \A j \in Workers : PastShuffle(j) =>
      \A i \in Workers : my_fmaps[j][i] = OwnedBy(local_n_gram_freq[i], j)

\* A peer's local map is split: part of it went to j and part of it did not.
C3_Witness ==
  /\ Valid /\ num_threads = 2
  /\ \E j \in Workers : \E i \in Workers \ {j} :
       /\ PastShuffle(j)
       /\ my_fmaps[j][i] # EmptyMap
       /\ DOMAIN my_fmaps[j][i] # DOMAIN local_n_gram_freq[i]

\* C4: a worker past the shuffle has received the handoff addressed to it
\* from every worker, itself included.
C4_ReceivedAll ==
  \A w \in Workers : PastShuffle(w) =>
    \A i \in Workers :
      /\ slots[<<i, w>>].writers # <<>>
      /\ w \in Range(slots[<<i, w>>].readers)

\* One of two workers is past the shuffle while the other still counts.
C4_Witness ==
  /\ Valid /\ num_threads = 2
  /\ \E w \in Workers, v \in Workers : PastShuffle(w) /\ pc[v] = "read"

\* C5, as stated (full barrier): when some worker is past the shuffle, every
\* one of the num_threads * num_threads slots has been published and read by
\* its target.
C5_FullBarrier ==
  \A w \in Workers : PastShuffle(w) =>
    \A i \in Workers, j \in Workers :
      /\ slots[<<i, j>>].writers # <<>>
      /\ j \in Range(slots[<<i, j>>].readers)

\* C5, amended: when worker w is past the shuffle, every worker has finished
\* counting and has published its slots for workers 0..w, and w has read
\* the num_threads slots addressed to it.
C5_OwnBarrier ==
  \A w \in Workers : PastShuffle(w) =>
    \A i \in Workers :
      /\ pc[i] \notin {"idle", "count"}
      /\ \A k \in 0..w : slots[<<i, k>>].writers = <<i>>
      /\ slots[<<i, w>>].readers = <<w>>

\* Worker 0 is past the shuffle while a slot for worker 1 is unpublished and
\* worker 1 has read nothing.
C5_Witness ==
  /\ Valid /\ num_threads = 2
  /\ PastShuffle(0)
  /\ slots[<<1, 1>>].writers = <<>>
  /\ slots[<<0, 1>>].readers = <<>>

\* C6 (ordered output): no worker writes a line before every worker of a
\* smaller id has written all of its lines, so the lines of std::cout are
\* in worker-id order.
C6_OrderedOutput ==
  \A p \in 1..Len(out), q \in 1..Len(out) : p < q => out[p] <= out[q]

\* C7 (termination): with N >= 1 and at least one worker, under fair
\* scheduling every worker finishes and compute() returns.
C7_Termination == Valid ~> (main_pc = "returned" /\ AllDone)

\* compute() has returned although every key went to worker 0 and worker 1,
\* which counted some, received empty sub-maps only.
C7_Witness ==
  /\ Valid /\ num_threads = 2 /\ main_pc = "returned"
  /\ FinalKeys(0) # {} /\ FinalKeys(1) = {}
  /\ local_n_gram_freq[1] # EmptyMap

\* C8 (one-shot slots): slot (i, j) is set at most once, by i only, and read
\* at most once, by j only, never before it is set; the future j reads at
\* index i is the slot i sets at index j; once all workers are done every
\* slot has been set and read exactly once.
C8_OneShot ==
  main_pc # "wire" =>
    \A i \in Workers, j \in Workers :
      LET s == slots[<<i, j>>]
      IN /\ s.writers \in {<<>>, <<i>>}
         /\ s.readers \in {<<>>, <<j>>}
         /\ s.readers # <<>> => s.writers # <<>>
         /\ futures[j][i] = <<i, j>>
         /\ AllDone => s.writers = <<i>> /\ s.readers = <<j>>

\* Two workers are done and the four slots carried different sub-maps.
C8_Witness ==
  /\ Valid /\ num_threads = 2 /\ AllDone
  /\ slots[<<0, 1>>].val # slots[<<1, 0>>].val
  /\ slots[<<0, 0>>].val # slots[<<0, 1>>].val

\* The files of worker w, by the round-robin rule.
FilesOf(w) == {f \in 0..(Len(all_files) - 1) : f % num_threads = w}

\* C9: a failed read does not abort the run or block the exchange: nothing
\* of a failed file is counted, the process is not killed, and a worker
\* that has left its publish loop has set each of its slots exactly once,
\* whether or not its reads failed, so that every get() on them returns.
C9_FailureTolerated ==
  Valid =>
    /\ ~aborted
    /\ \A w \in Workers :
         /\ pc[w] \notin {"idle", "count"} =>
              \A g \in DOMAIN local_n_gram_freq[w]
                       \cup UNION {WindowKeys(all_files[f + 1]) : f \in FilesOf(w) \ failed} :
                Get(local_n_gram_freq[w], g) = WindowsIn(FilesOf(w) \ failed, g)
         /\ pc[w] \in {"read", "lock", "merge", "done"} =>
              \A j \in Workers :
                slots[<<w, j>>].writers = <<w>> /\ Ready(futures[j][w])

\* compute() has returned after the read of a file holding a word failed,
\* while a peer's file was read.
C9_Witness ==
  /\ Valid /\ num_threads = 2 /\ main_pc = "returned"
  /\ \E f \in failed : Runs(all_files[f + 1]) # {}
  /\ \E f \in FilesRead : Runs(all_files[f + 1]) # {}

\* C10 (malformed configuration): with N = 0 or no worker, no file is
\* assigned, no thread is started and nothing is counted.
C10_ConfigRejected ==
  (n = 0 \/ num_threads = 0) =>
    /\ spawned = 0
    /\ ~aborted
    /\ \A w \in Workers :
         /\ files_to_sweep[w] = <<>>
         /\ pc[w] = "idle"
         /\ local_n_gram_freq[w] = EmptyMap

\* The members of a set of numbers, smallest first.
Ascending(S) ==
  [k \in 1..Cardinality(S) |->
     CHOOSE x \in S : Cardinality({y \in S : y < x}) = k - 1]

IsPrefix(a, b) == Len(a) <= Len(b) /\ a = SubSeq(b, 1, Len(a))

\* C11 (file partition): once the files are assigned, file i is in the list
\* of worker i mod num_threads and in no other list, every list holds its
\* files once each in discovery order, and the files a worker has processed
\* are the first ones of its list, all of it once it has left its file loop.
C11_FilePartition ==
  (num_threads >= 1 /\ main_pc \notin {"wire", "find", "partition"}) =>
    /\ \A f \in 0..(Len(all_files) - 1) :
         {w \in Workers : f \in Range(files_to_sweep[w])} = {f % num_threads}
    /\ \A w \in Workers :
         /\ files_to_sweep[w] = Ascending(FilesOf(w))
         /\ IsPrefix(swept[w], files_to_sweep[w])
         /\ pc[w] \in {"publish", "read", "lock", "merge", "done"} =>
              swept[w] = files_to_sweep[w]

\* Two files went to two workers, each of which has processed its own and
\* finished.
C11_Witness ==
  /\ Valid /\ num_threads = 2 /\ Len(all_files) = 2 /\ AllDone
  /\ swept[0] = <<0>> /\ swept[1] = <<1>>


\* C12 (shared-resource policy): no frequency table is written by more than
\* one worker, and every handoff slot is written by its owning worker only
\* and read by its one target only.
C12_NoSharedTable ==
  /\ Cardinality(freq_writers) <= 1
  /\ main_pc # "wire" =>
       \A i \in Workers, j \in Workers :
         /\ Range(slots[<<i, j>>].writers) \subseteq {i}
         /\ Range(slots[<<i, j>>].readers) \subseteq {j}

\* C13 (sentence boundary): every n-gram a worker has counted is spelled by
\* n consecutive tokens of one file it read, with no digit or punctuation
\* byte anywhere between the first and the last of them.
C13_SentenceBoundary ==
  \A w \in Workers : \A g \in DOMAIN local_n_gram_freq[w] :
    \E f \in Range(swept[w]) \ failed :
      LET t == all_files[f + 1]
          rs == RunSeq(t)
      IN \E k \in 1..(Len(rs) - n + 1) :
           /\ Spell(t, rs, k, n) = g
           /\ \A c \in (rs[k][2] + 1)..(rs[k + n - 1][1] - 1) : ~IsBreak(t[c])

\* With n = 2 the text "a a.B" has been counted: "a a" is a key and "a b",
\* which would span the full stop, is not.
C13_Witness ==
  /\ n = 2 /\ all_files = <<<<"a", " ", "a", ".", "B">>>>
  /\ swept[0] = <<0>> /\ failed = {}
  /\ DOMAIN local_n_gram_freq[0] = {<<"a", " ", "a">>}

\* The sentences of a raw text that hold a byte: the maximal stretches
\* without a digit or punctuation byte, as <<first, last>>.
Spans(t) ==
  {sp \in (1..Len(t)) \X (1..Len(t)) :
     /\ sp[1] <= sp[2]
     /\ \A k \in sp[1]..sp[2] : ~IsBreak(t[k])
     /\ sp[1] = 1 \/ IsBreak(t[sp[1] - 1])
     /\ sp[2] = Len(t) \/ IsBreak(t[sp[2] + 1])}

\* The tokens of sentence sp, left to right.
SpanRuns(t, sp) ==
  LET S == {r \in Runs(t) : sp[1] <= r[1] /\ r[2] <= sp[2]}
  IN [k \in 1..Cardinality(S) |->
        CHOOSE r \in S : Cardinality({q \in S : q[1] < r[1]}) = k - 1]

\* max(0, k - N + 1) for a sentence of k tokens.
WindowCount(k) == IF k - n + 1 > 0 THEN k - n + 1 ELSE 0

\* The windows of sentence sp, by the position of their first token, that
\* spell g.
SpanWindows(t, sp, g) ==
  LET rs == SpanRuns(t, sp)
  IN {p \in 1..(Len(rs) - n + 1) : Spell(t, rs, p, n) = g}

\* The sentences of the files worker w has read so far.
SpansRead(w) ==
  UNION {{<<f, sp>> : sp \in Spans(all_files[f + 1])} :
         f \in Range(swept[w]) \ failed}

\* C14 (sliding window): with N >= 1, the increments a worker has made to its
\* local n-gram map number max(0, k - N + 1) for each sentence of k tokens it
\* has read, and the count of every key is the number of windows of N
\* consecutive tokens of one sentence that spell it, joined by single
\* blanks.
C14_SlidingWindow ==
  n >= 1 =>
    \A w \in Workers :
      /\ SumFn(local_n_gram_freq[w]) =
           SumFn([x \in SpansRead(w) |->
                    WindowCount(Len(SpanRuns(all_files[x[1] + 1], x[2])))])
      /\ \A g \in DOMAIN local_n_gram_freq[w] :
           local_n_gram_freq[w][g] =
             SumFn([x \in SpansRead(w) |->
                      Cardinality(SpanWindows(all_files[x[1] + 1], x[2], g))])

\* With N = 2 the one sentence "a B a" of three tokens has given "a b" and
\* "b a" once each.
C14_Witness ==
  /\ n = 2 /\ all_files = <<<<"a", " ", "B", " ", "a">>>>
  /\ swept[0] = <<0>> /\ failed = {}
  /\ local_n_gram_freq[0] =
       (<<"a", " ", "b">> :> 1) @@ (<<"b", " ", "a">> :> 1)

\* Key s comes before key t in lexicographic order: they agree up to some
\* position where s has ended and t has not, or where s holds the smaller
\* byte.
LexLess(s, t) ==
  \E k \in 1..(Len(s) + 1) :
    /\ \A j \in 1..(k - 1) : j <= Len(t) /\ s[j] = t[j]
    /\ \/ k = Len(s) + 1 /\ Len(t) >= k
       \/ k <= Len(s) /\ k <= Len(t) /\ Ascii(s[k]) < Ascii(t[k])

\* C15 (report order): what display() has printed is every entry of the
\* table once, with its count, larger counts first and equal counts in
\* ascending lexicographic order of the keys.
C15_ReportOrder ==
  displayed =>
    /\ Len(shown) = Cardinality(DOMAIN freq)
    /\ \A word \in DOMAIN freq :
         \E p \in 1..Len(shown) : shown[p] = <<word, freq[word]>>
    /\ \A p \in 1..Len(shown), q \in 1..Len(shown) :
         p < q =>
           \/ shown[p][2] > shown[q][2]
           \/ shown[p][2] = shown[q][2] /\ LexLess(shown[p][1], shown[q][1])

\* The text "B B a" has been displayed: "b" with count 2 is printed before
\* "a" with count 1.
C15_Witness ==
  /\ displayed
  /\ all_files = <<<<"B", " ", "B", " ", "a">>>>
  /\ shown = <<<<<<"b">>, 2>>, <<<<"a">>, 1>>>>

\* C16 (header limit): whatever positive print limit is configured, the
\* lines printed for a table number the smaller of that limit and the number
\* of keys of the table, and they are the first ones in the sort order.
C16_HeaderLimit ==
  displayed =>
    \A header \in 1..MaxHeader :
      /\ Len(shown) <= header
      /\ Len(shown) =
           IF header < Cardinality(DOMAIN freq) THEN header
           ELSE Cardinality(DOMAIN freq)
      /\ shown = SubSeq(SortVec(FreqVec(freq)), 1, Len(shown))

\* C17 (publish before read): a worker that has not left its file loop has
\* set none of its slots; a worker in its publish loop has processed all its
\* files, has set exactly its slots of a smaller index than the one it is
\* at, and has read nothing; a worker that reads, or waits to read, has set
\* every one of its slots.
C17_PublishBeforeRead ==
  main_pc # "wire" =>
    \A w \in Workers :
      /\ pc[w] \in {"idle", "count", "hung"} =>
           \A j \in Workers :
             slots[<<w, j>>].writers = <<>> /\ slots[<<j, w>>].readers = <<>>
      /\ pc[w] = "publish" =>
           /\ swept[w] = files_to_sweep[w]
           /\ \A j \in Workers :
                /\ slots[<<w, j>>].writers = IF j < idx[w] THEN <<w>> ELSE <<>>
                /\ slots[<<j, w>>].readers = <<>>
      /\ pc[w] = "read" =>
           \A j \in Workers : slots[<<w, j>>].writers = <<w>>

\* Worker 0 has read its own sub-map and is blocked on the slot of worker 1,
\* which still counts; both slots of worker 0 are set.
C17_Witness ==
  /\ Valid /\ num_threads = 2
  /\ pc[0] = "read" /\ idx[0] = 1 /\ ~Ready(futures[0][1])
  /\ pc[1] = "count"
  /\ slots[<<0, 0>>].readers = <<0>>
  /\ slots[<<0, 1>>].writers = <<0>>

\* The words of the table and of the local tables.
AllWords == DOMAIN freq \cup UNION {DOMAIN local_freq[w] : w \in Workers}

\* Worker w has read every slot addressed to it.
ReadAll(w) == \A i \in Workers : slots[<<i, w>>].readers = <<w>>

\* At most one worker is inside the merge, the one holding wc_mtx, and it
\* has read all its inbound slots; so has every worker that has written
\* freq; freq holds, for every word, the sum of the local counts of the
\* workers that have merged, which are all the workers once compute() has
\* returned (freq is empty before the call).
MergeState ==
  /\ Cardinality({w \in Workers : pc[w] = "merge"}) <= 1
  /\ \A w \in Workers :
       /\ pc[w] = "merge" <=> wc_mtx = w
       /\ (pc[w] = "merge" \/ w \in freq_writers) => ReadAll(w)
  /\ \A word \in AllWords :
       Get(freq, word) =
         SumFn([w \in {v \in Workers : pc[v] = "done"} |->
                  Get(local_freq[w], word)])
  /\ (Valid /\ main_pc = "returned") =>
       /\ AllDone
       /\ \A word \in AllWords :
            Get(freq, word) =
              SumFn([w \in Workers |-> Get(local_freq[w], word)])

\* A step that changes freq is the merge of the worker that holds wc_mtx.
MergeStep ==
  freq' # freq =>
    \E w \in Workers :
      /\ wc_mtx = w /\ pc[w] = "merge" /\ ReadAll(w)
      /\ pc'[w] = "done" /\ wc_mtx' = NoOwner

\* C18 (merge): freq is written only by a worker that holds wc_mtx and has
\* read all its inbound slots, at most one worker is inside the merge at any
\* time, and when compute() returns freq holds for every word the sum of
\* all workers' local counts, whatever the order of the merges.
C18_MergeRaceFree == []MergeState /\ [][MergeStep]_vars

\* compute() has returned after two workers merged the same word: worker 1
\* went first in one run and second in another, the table is the same.
C18_Witness ==
  /\ Valid /\ num_threads = 2 /\ main_pc = "returned"
  /\ freq_writers = {0, 1}
  /\ \E word \in DOMAIN freq :
       /\ freq[word] = 2
       /\ local_freq[0][word] = 1 /\ local_freq[1][word] = 1

=============================================================================
